---------------------------- MODULE Spec2Model ----------------------------
(***************************************************************************)
(* A model of the HEP detector signal reconstruction engine:               *)
(*   src/signal_generator.py  pulse model                                  *)
(*   src/noise_model.py       noise injector                               *)
(*   src/reconstruction.py    moving average, Fourier low-pass, Kalman      *)
(*   src/metrics.py           metric engine                                *)
(*   src/experiments.py       noise sweep and event scaling studies        *)
(*                                                                         *)
(* Numbers.  The program computes in binary64.  A number is modelled as a  *)
(* reduced fraction <<n, d>> with d > 0.  Arithmetic is exact as long as    *)
(* the reduced denominator does not exceed Precision; a result that needs  *)
(* a larger denominator is rounded to the nearest multiple of 1/Precision  *)
(* (the stand-in for binary64 rounding).  The gains of the recursive      *)
(* estimator stay exact for the noise parameters the model draws.          *)
(***************************************************************************)
EXTENDS Integers, Sequences, FiniteSets, TLC

VARIABLES
    rng,    \* state of the process-wide generator, per process
    insts,  \* components constructed so far: <<kind, seed>>
    files,  \* per process: content of each result file, or a marker
    last,   \* the operation a process-level action ran, with its arguments
    out,    \* per process: what that operation returned or raised
    nops,   \* process-level operations the run still performs
    heap,   \* arrays of the call in progress: object id -> values
    call    \* the reconstructor / noise / metric call in progress

vars == <<rng, insts, files, last, out, nops, heap, call>>

\* Largest denominator kept exactly, and the rounding grid beyond it.
PrecisionDigits == 2 + 2
Precision == 10 ^ PrecisionDigits

RECURSIVE Gcd(_, _)
Gcd(a, b) == IF b = 0 THEN a ELSE Gcd(b, a % b)

Abs(n) == IF n < 0 THEN -n ELSE n

Lcm(a, b) == (a \div Gcd(a, b)) * b

\* digits of rem/d after the point, k decimal places, rounded half up
RECURSIVE FracDigits(_, _, _, _)
FracDigits(rem, d, k, acc) ==
    IF k = 0
    THEN IF 2 * rem >= d THEN acc + 1 ELSE acc
    ELSE FracDigits((rem * 10) % d, d, k - 1, acc * 10 + ((rem * 10) \div d))

\* n/d with d > 0, reduced
Reduce(n, d) ==
    LET g == Gcd(Abs(n), d) IN <<n \div g, d \div g>>

\* n/d rounded to PrecisionDigits decimal places
RoundToGrid(n, d) ==
    LET ip == n \div d
        fr == FracDigits(n % d, d, PrecisionDigits, 0)
    IN  Reduce(ip * Precision + fr, Precision)

\* the number n/d (d > 0) as the arithmetic stores it
Fl(n, d) ==
    LET r == Reduce(n, d)
    IN  IF r[2] <= Precision THEN r ELSE RoundToGrid(r[1], r[2])

Zero == <<0, 1>>
One  == <<1, 1>>
Int2Num(i) == <<i, 1>>

Add(a, b) ==
    LET l == Lcm(a[2], b[2])
    IN  Fl(a[1] * (l \div a[2]) + b[1] * (l \div b[2]), l)

Neg(a) == <<-a[1], a[2]>>

Sub(a, b) == Add(a, Neg(b))

Mul(a, b) ==
    LET g1 == Gcd(Abs(a[1]), b[2])
        g2 == Gcd(Abs(b[1]), a[2])
    IN  Fl((a[1] \div g1) * (b[1] \div g2), (a[2] \div g2) * (b[2] \div g1))

\* 1/a for a # 0
Inv(a) == IF a[1] > 0 THEN Fl(a[2], a[1]) ELSE Fl(-a[2], -a[1])

Div(a, b) == Mul(a, Inv(b))

Lt(a, b) == a[1] * b[2] < b[1] * a[2]
Le(a, b) == a[1] * b[2] <= b[1] * a[2]
NumAbs(a) == <<Abs(a[1]), a[2]>>
NumMax(a, b) == IF Lt(a, b) THEN b ELSE a
NumMin(a, b) == IF Lt(b, a) THEN b ELSE a

(***************************************************************************)
(* Signals: a Signal is a non-empty sequence of numbers (a numpy array of  *)
(* float64), index 1 of the sequence being index 0 of the array.           *)
(***************************************************************************)

\* an array holds its values: a sequence written [i \in 1..n |-> e] is
\* materialised once, when the array is built
AsArray(s) == s \o <<>>

\* F at the value of v: v is evaluated once, before F is
Bind(v, F(_)) == CHOOSE y \in {F(x) : x \in {v}} : TRUE

\* longest signal of the pure-function specifications
MaxLen == 3

\* sample values the inputs are drawn from
SampleValues == {Int2Num(-1), Zero, <<3, 2>>}

RECURSIVE SeqsOfLen(_, _)
SeqsOfLen(S, n) ==
    IF n = 0 THEN {<<>>}
    ELSE {Append(s, v) : s \in SeqsOfLen(S, n - 1), v \in S}

Signals == UNION {SeqsOfLen(SampleValues, n) : n \in 1..MaxLen}

(***************************************************************************)
(* reconstruction.py: SignalReconstructor.kalman_filter                    *)
(***************************************************************************)

\* x_hat = signal[0]; p = 1.0
KalmanInitialZero(signal) == [x_hat |-> Zero, p |-> One]
KalmanInitial(signal) == [x_hat |-> signal[1], p |-> One]

\* k = p_minus / (p_minus + r)
KalmanGainSwapped(p_minus, r) == Div(r, Add(p_minus, r))
KalmanGainUnnormalised(p_minus, r) == Div(p_minus, r)
KalmanGain(p_minus, r) == Div(p_minus, Add(p_minus, r))

\* one pass of the loop body for observation z
KalmanStep(kst, z, q, r) ==
    LET p_minus == Add(kst.p, q)
        k       == KalmanGain(p_minus, r)
    IN  [x_hat |-> Add(kst.x_hat, Mul(k, Sub(z, kst.x_hat))),
         p     |-> Mul(Sub(One, k), p_minus),
         k     |-> k]

\* the loop: the sequence of (x_hat, p, k) after each of the n passes
RECURSIVE KalmanLoop(_, _, _, _, _, _)
KalmanLoop(signal, q, r, i, kst, trace) ==
    IF i > Len(signal) THEN trace
    ELSE Bind(KalmanStep(kst, signal[i], q, r),
              LAMBDA nx : KalmanLoop(signal, q, r, i + 1,
                                     [x_hat |-> nx.x_hat, p |-> nx.p],
                                     Append(trace, nx)))

KalmanTrace(signal, q, r) ==
    KalmanLoop(signal, q, r, 1, KalmanInitial(signal), <<>>)

\* reconstructed[i] = x_hat
kalman_filter(signal, q, r) ==
    Bind(KalmanTrace(signal, q, r),
         LAMBDA tr : AsArray([i \in 1..Len(signal) |-> tr[i].x_hat]))

\* the gains k the loop computed, in order (local to the call)
kalman_gains(signal, q, r) ==
    Bind(KalmanTrace(signal, q, r),
         LAMBDA tr : AsArray([i \in 1..Len(signal) |-> tr[i].k]))

(***************************************************************************)
(* reconstruction.py: SignalReconstructor.moving_average                   *)
(***************************************************************************)

Repeat(v, k) == AsArray([i \in 1..k |-> v])

\* np.pad(signal, (padding, padding), mode='edge')
PadEdge(signal, padding) ==
    Repeat(signal[1], padding) \o signal \o Repeat(signal[Len(signal)], padding)

\* sum of f[lo..hi]; numpy adds the halves of a range and then the two sums
\* (pairwise summation)
RECURSIVE SumRange(_, _, _)
SumRange(f, lo, hi) ==
    IF hi < lo THEN Zero
    ELSE IF lo = hi THEN f[lo]
    ELSE LET mid == (lo + hi) \div 2
         IN  Add(SumRange(f, lo, mid), SumRange(f, mid + 1, hi))

\* np.convolve(a, v, mode='valid'): the operands are swapped when v is the
\* longer one; max(M, N) - min(M, N) + 1 values
ConvolveValid(a, v) ==
    LET long  == IF Len(v) > Len(a) THEN v ELSE a
        short == IF Len(v) > Len(a) THEN a ELSE v
        N     == Len(short)
    IN  AsArray([j \in 1..(Len(long) - N + 1) |->
            SumRange([m \in 1..N |-> Mul(long[j + m - 1], short[N - m + 1])], 1, N)])

\* filtered[:n]
TakeAll(s, n) == s
Take(s, n) == SubSeq(s, 1, IF Len(s) < n THEN Len(s) ELSE n)

\* np.ones(window_size) / window_size
UniformKernel(window_size) == Repeat(Div(One, Int2Num(window_size)), window_size)

\* padding = window_size // 2
MAPaddingCeil(window_size) == (window_size + 1) \div 2
MAPadding(window_size) == window_size \div 2

\* the values moving_average returns
moving_average(signal, window_size) ==
    IF window_size < 1 THEN signal
    ELSE LET padding       == MAPadding(window_size)
             padded_signal == PadEdge(signal, padding)
             kernel        == UniformKernel(window_size)
             filtered      == ConvolveValid(padded_signal, kernel)
         IN  Take(filtered, Len(signal))

\* TRUE when moving_average hands back the very array it was given
\* (line 23: return signal), FALSE when the result is a freshly built array
moving_average_returns_input(window_size) == window_size < 1

(***************************************************************************)
(* reconstruction.py: SignalReconstructor.fourier_filter                   *)
(***************************************************************************)

\* scipy.fft.fftfreq(n, dt)[k], k = 0..n-1:
\* 0, 1, ..., (n-1)//2, -(n//2), ..., -1, each times 1/(n*dt)
FftFreq(n, dt, k) ==
    LET val == Div(One, Mul(Int2Num(n), dt))
        idx == IF k <= (n - 1) \div 2 THEN k ELSE k - n
    IN  Mul(Int2Num(idx), val)

\* cos(2*pi*m/n); rational for the lengths the model uses (n in 1,2,3,4,6)
CosTurn(m, n) ==
    LET r == m % n
    IN  CASE n = 1 -> One
          [] n = 2 -> IF r = 0 THEN One ELSE Int2Num(-1)
          [] n = 3 -> IF r = 0 THEN One ELSE <<-1, 2>>
          [] n = 4 -> IF r = 0 THEN One ELSE IF r = 2 THEN Int2Num(-1) ELSE Zero
          [] n = 6 -> IF r = 0 THEN One
                      ELSE IF r = 3 THEN Int2Num(-1)
                      ELSE IF r \in {1, 5} THEN <<1, 2>> ELSE <<-1, 2>>

\* bins that survive yf_filtered[np.abs(xf) > cutoff_freq] = 0
KeptBins(n, dt, cutoff_freq) ==
    {k \in 0..(n - 1) : ~Lt(cutoff_freq, NumAbs(FftFreq(n, dt, k)))}

RECURSIVE SumSet(_, _)
SumSet(term, S) ==
    IF S = {} THEN Zero
    ELSE LET least == CHOOSE x \in S : \A y \in S : x <= y
         IN  Add(term[least], SumSet(term, S \ {least}))

\* np.real(ifft(masked fft(signal)))[j] =
\*   (1/n) * sum over kept k, over m, of signal[m] * cos(2*pi*k*(j-m)/n)
fourier_filter(signal, dt, cutoff_freq) ==
    LET n    == Len(signal)
        kept == KeptBins(n, dt, cutoff_freq)
    IN  AsArray([j \in 1..n |->
            Div(SumSet([k \in kept |->
                          SumRange([m \in 1..n |->
                                      Mul(signal[m], CosTurn(k * (j - m + n), n))],
                                   1, n)],
                       kept),
                Int2Num(n))])

(***************************************************************************)
(* metrics.py: PerformanceMetrics                                          *)
(***************************************************************************)

\* np.mean
Mean(s) == Div(SumRange(s, 1, Len(s)), Int2Num(Len(s)))

Square(a) == Mul(a, a)

RECURSIVE MaxRange(_, _)
MaxRange(s, hi) == IF hi = 1 THEN s[1] ELSE NumMax(MaxRange(s, hi - 1), s[hi])

\* np.max
Max(s) == MaxRange(s, Len(s))

mean_squared_error(true_signal, reconstructed_signal) ==
    Mean(AsArray([i \in 1..Len(true_signal) |->
            Square(Sub(true_signal[i], reconstructed_signal[i]))]))

\* SNR values: +infinity is <<"inf">>; 10*log10(ratio) is <<"dB", ratio>>
\* (log10 is injective and increasing, so the power ratio stands for the
\* value; ratio 0 is -infinity)
PosInf == <<"inf">>
Decibel(ratio) == <<"dB", ratio>>

signal_to_noise_ratio_eps(true_signal, reconstructed_signal) ==
    LET signal_power == Mean(AsArray([i \in 1..Len(true_signal) |->
                                        Square(true_signal[i])]))
        noise_power  == Mean(AsArray([i \in 1..Len(true_signal) |->
                                Square(Sub(true_signal[i], reconstructed_signal[i]))]))
    IN  Decibel(Div(signal_power, Add(noise_power, <<1, Precision>>)))

signal_to_noise_ratio(true_signal, reconstructed_signal) ==
    LET signal_power == Mean(AsArray([i \in 1..Len(true_signal) |->
                                        Square(true_signal[i])]))
        noise_power  == Mean(AsArray([i \in 1..Len(true_signal) |->
                                Square(Sub(true_signal[i], reconstructed_signal[i]))]))
    IN  IF noise_power = Zero THEN PosInf
        ELSE Decibel(Div(signal_power, noise_power))

peak_amplitude_error(true_signal, reconstructed_signal) ==
    NumAbs(Sub(Max(true_signal), Max(reconstructed_signal)))

reconstruction_bias(true_signal, reconstructed_signal) ==
    Mean(AsArray([i \in 1..Len(true_signal) |->
            Sub(reconstructed_signal[i], true_signal[i])]))

compute_all(true_signal, reconstructed_signal) ==
    [name \in {"MSE", "SNR", "Peak Error", "Bias"} |->
        CASE name = "MSE" -> mean_squared_error(true_signal, reconstructed_signal)
          [] name = "SNR" -> signal_to_noise_ratio(true_signal, reconstructed_signal)
          [] name = "Peak Error" -> peak_amplitude_error(true_signal, reconstructed_signal)
          [] name = "Bias" -> reconstruction_bias(true_signal, reconstructed_signal)]

(***************************************************************************)
(* The process-wide generator behind np.random.seed / np.random.*          *)
(*                                                                         *)
(* numpy's global generator is a deterministic function of its state.  The *)
(* model keeps that and nothing else of the Mersenne Twister: the state is *)
(* a residue, seeding fixes it from the seed alone, every variate drawn    *)
(* advances it by one step of a full-period congruential map.              *)
(***************************************************************************)

RngModulus == 2 ^ 3
RngStates  == 0..(RngModulus - 1)

\* np.random.seed(seed): the state depends on the seed only
SeedState(seed) == (7 * seed + 1) % RngModulus

\* the state after one variate
RngAdvance(g) == (5 * g + 3) % RngModulus

\* the state after n variates
RECURSIVE RngSkip(_, _)
RngSkip(g, n) ==
    IF n = 0 THEN g
    ELSE IF n = 1 THEN RngAdvance(g)
    ELSE Bind(RngSkip(g, n \div 2), LAMBDA h : RngSkip(h, n - (n \div 2)))

\* a uniform variate of [0, 1) read off state g
Uniform01(g) == Fl(g, RngModulus)

\* a standard normal variate read off state g: one of -1, -1/2, 0, 1/2, 1
StdNormal(g) == Fl((g % 5) - 2, 2)

\* np.random.uniform(lo, hi) read off state g
RandomUniform(g, lo, hi) == Add(lo, Mul(Sub(hi, lo), Uniform01(g)))

\* np.random.normal(0, sigma, size=n): variate i is read off the state
\* reached after i - 1 draws
RandomNormal(g, sigma, n) ==
    AsArray([i \in 1..n |-> Add(Zero, Mul(sigma, StdNormal(RngSkip(g, i - 1))))])

\* np.random.random(size=n)
RandomRandom(g, n) == AsArray([i \in 1..n |-> Uniform01(RngSkip(g, i - 1))])

\* np.random.choice([-1, 1], size=n)
RandomChoiceSign(g, n) ==
    AsArray([i \in 1..n |-> IF RngSkip(g, i - 1) % 2 = 0 THEN Int2Num(-1) ELSE One])

(***************************************************************************)
(* signal_generator.py: SignalGenerator                                    *)
(***************************************************************************)

\* samples of the model's time base (the program's default has 1000)
NSamples == 3

\* t_start and t_end defaults of SignalGenerator.__init__
T_START == 0
T_END   == 100

\* the dt that gives NSamples samples over [T_START, T_END)
ModelDt == Fl(T_END - T_START, NSamples)

\* default seed of SignalGenerator and NoiseModel
DEFAULT_SEED == 42

\* np.arange(t_start, t_end, dt) with (t_end - t_start)/dt = NSamples
TimeBase ==
    AsArray([i \in 1..NSamples |-> Add(Int2Num(T_START), Mul(Int2Num(i - 1), ModelDt))])

\* stand-in for np.exp(-u), u >= 0: 1/(1 + u); it keeps exp(-0) = 1,
\* positivity and strict decrease, which is all the pulse needs here
ExpNeg(u) == Inv(Add(One, u))

\* amplitude * np.exp(-(self.time - t0)**2 / (2 * sigma**2))
generate_gaussian_pulse(time, amplitude, t0, sigma) ==
    AsArray([i \in 1..Len(time) |->
        Mul(amplitude,
            ExpNeg(Div(Square(Sub(time[i], t0)), Mul(Int2Num(2), Square(sigma)))))])

\* default arguments of generate_gaussian_pulse
DefaultPulse(time) == generate_gaussian_pulse(time, One, Int2Num(50), Int2Num(5))

\* default ranges of generate_event_batch
AmplitudeRange == <<Fl(8, 10), Fl(12, 10)>>
T0Range        == <<Int2Num(40), Int2Num(60)>>
SigmaRange     == <<Int2Num(3), Int2Num(7)>>

\* event i of generate_event_batch drawn from state g: three uniforms
BatchEvent(time, g) ==
    LET a == RandomUniform(g, AmplitudeRange[1], AmplitudeRange[2])
        t == RandomUniform(RngAdvance(g), T0Range[1], T0Range[2])
        s == RandomUniform(RngSkip(g, 2), SigmaRange[1], SigmaRange[2])
    IN  generate_gaussian_pulse(time, a, t, s)

\* generate_event_batch: the n events and the generator state afterwards
generate_event_batch(time, g, n_events) ==
    [events |-> AsArray([i \in 1..n_events |-> BatchEvent(time, RngSkip(g, 3 * (i - 1)))]),
     rng    |-> RngSkip(g, 3 * n_events)]

(***************************************************************************)
(* noise_model.py: NoiseModel                                              *)
(***************************************************************************)

SeqAdd(a, b) == AsArray([i \in 1..Len(a) |-> Add(a[i], b[i])])

\* signal + np.random.normal(0, sigma, size=signal.shape)
add_gaussian_noise(signal, sigma, g) ==
    [out |-> SeqAdd(signal, RandomNormal(g, sigma, Len(signal))),
     rng |-> RngSkip(g, Len(signal))]

\* stand-in for np.sin(2*pi*x): Bhaskara-style parabola on each half turn
SinTurn(x) ==
    LET whole == x[1] \div x[2]
        y     == Mul(Int2Num(2), Sub(x, Int2Num(whole)))
    IN  IF Le(y, One)
        THEN Mul(Int2Num(4), Mul(y, Sub(One, y)))
        ELSE Neg(Mul(Int2Num(4), Mul(Sub(y, One), Sub(Int2Num(2), y))))

\* signal + amplitude * np.sin(2 * np.pi * frequency * time)
add_baseline_drift(signal, time, amplitude, frequency) ==
    AsArray([i \in 1..Len(signal) |->
        Add(signal[i], Mul(amplitude, SinTurn(Mul(frequency, time[i]))))])

\* spikes = (random < prob) * (choice([-1, 1]) * amplitude); signal + spikes
add_spikes(signal, prob, amplitude, g) ==
    LET n      == Len(signal)
        hit    == RandomRandom(g, n)
        sign   == RandomChoiceSign(RngSkip(g, n), n)
    IN  [out |-> AsArray([i \in 1..n |->
                    Add(signal[i],
                        Mul(IF Lt(hit[i], prob) THEN One ELSE Zero,
                            Mul(sign[i], amplitude)))]),
         rng |-> RngSkip(g, 2 * n)]

\* gaussian, then drift, then spikes
\* sigma, drift = <<amplitude, frequency>>, spike = <<prob, amplitude>>
apply_full_noise_model(signal, time, sigma, drift, spike, g) ==
    LET s1 == add_gaussian_noise(signal, sigma, g)
        s2 == add_baseline_drift(s1.out, time, drift[1], drift[2])
    IN  add_spikes(s2, spike[1], spike[2], s1.rng)

(***************************************************************************)
(* experiments.py: Experiments                                             *)
(***************************************************************************)

\* default filter arguments: moving_average(window_size=5),
\* kalman_filter(process_noise=1e-4, measurement_noise=1e-2)
DEFAULT_WINDOW == 5
DefaultProcessNoise     == <<1, 10000>>
DefaultMeasurementNoise == <<1, 100>>
\* cutoff_freq=0.5 of the sweep, sigma=0.2 of the scaling study
SweepCutoff  == <<1, 2>>
ScalingSigma == <<1, 5>>
\* bias_ma[:100], bias_kf[:100]
SAMPLE_CAP == 100

\* decimal digits of rem/d (0 <= rem < d) without trailing zeros, at most k
RECURSIVE DecimalDigits(_, _, _)
DecimalDigits(rem, d, k) ==
    IF rem = 0 \/ k = 0 THEN ""
    ELSE ToString((rem * 10) \div d) \o DecimalDigits((rem * 10) % d, d, k - 1)

\* str(x) of a Python float x in [1e-4, 1e16) or 0: sign, integer part, point,
\* the shortest digits that give x back, at least one ("1.0", "0.05")
FloatStr(x) ==
    LET a      == NumAbs(x)
        digits == DecimalDigits(a[1] % a[2], a[2], PrecisionDigits)
    IN  (IF x[1] < 0 THEN "-" ELSE "") \o ToString(a[1] \div a[2]) \o "."
        \o (IF digits = "" THEN "0" ELSE digits)

\* str(n) of a Python int
IntStr(n) == ToString(n)

\* results[key] = entry
DictSet(dict, key, entry) ==
    [k \in (DOMAIN dict) \cup {key} |-> IF k = key THEN entry ELSE dict[k]]

EmptyDict == <<>>

\* np.random.normal raises ValueError("scale < 0") for a negative sigma
NormalRaises(sigma) == Lt(sigma, Zero)

\* the signal the sweep hands to add_gaussian_noise in pass i
SweepNoiseInputChained(clean_signal, previous_noisy) == previous_noisy
SweepNoiseInput(clean_signal, previous_noisy) == clean_signal

\* the four reports of one pass
SweepEntry(clean_signal, noisy_signal) ==
    Bind(<<moving_average(noisy_signal, DEFAULT_WINDOW),
           fourier_filter(noisy_signal, ModelDt, SweepCutoff),
           kalman_filter(noisy_signal, DefaultProcessNoise, DefaultMeasurementNoise)>>,
         LAMBDA f :
            [m \in {"MA", "Fourier", "Kalman", "Noisy"} |->
                CASE m = "MA"      -> compute_all(clean_signal, f[1])
                  [] m = "Fourier" -> compute_all(clean_signal, f[2])
                  [] m = "Kalman"  -> compute_all(clean_signal, f[3])
                  [] m = "Noisy"   -> compute_all(clean_signal, noisy_signal)])

\* the for loop of run_noise_sweep from pass i on; st carries results, the
\* generator state, the last noisy signal and the steps taken so far
RECURSIVE SweepLoop(_, _, _, _)
SweepLoop(sigma_levels, i, clean_signal, st) ==
    IF i > Len(sigma_levels) THEN st
    ELSE LET sigma == sigma_levels[i]
             input == SweepNoiseInput(clean_signal, st.noisy)
         IN  IF NormalRaises(sigma)
             THEN [st EXCEPT !.raised = "ValueError",
                             !.steps = Append(@, <<"add_gaussian_noise", sigma, input>>)]
             ELSE Bind(add_gaussian_noise(input, sigma, st.rng), LAMBDA nz :
                  Bind([results |-> DictSet(st.results, FloatStr(sigma),
                                            SweepEntry(clean_signal, nz.out)),
                        rng     |-> nz.rng,
                        noisy   |-> nz.out,
                        raised  |-> "",
                        steps   |-> st.steps
                                    \o << <<"add_gaussian_noise", sigma, input>>,
                                          <<"noisy", nz.out>>,
                                          <<"entry", FloatStr(sigma)>> >>],
                       LAMBDA passed :
                          SweepLoop(sigma_levels, i + 1, clean_signal, passed)))

\* run_noise_sweep up to the point where it writes: what it computed
NoiseSweepBody(sigma_levels, g) ==
    Bind(DefaultPulse(TimeBase), LAMBDA clean_signal :
         SweepLoop(sigma_levels, 1, clean_signal,
                   [results |-> EmptyDict, rng |-> g, noisy |-> clean_signal,
                    raised |-> "",
                    steps |-> << <<"generate_gaussian_pulse", clean_signal>> >>]))

\* np.mean / np.std of a Python list; both are nan for an empty list
NaN == <<"nan">>
ListMean(s) == IF Len(s) = 0 THEN NaN ELSE Mean(s)
\* sqrt is kept symbolic: <<"sqrt", v>> is the square root of v
ListStd(s) ==
    IF Len(s) = 0 THEN NaN
    ELSE Bind(Mean(s), LAMBDA mu :
              <<"sqrt", Mean(AsArray([i \in 1..Len(s) |->
                                         Square(NumAbs(Sub(s[i], mu)))]))>>)

\* the list the statistics of one count are computed over
StatsSampleCapped(biases) == Take(biases, SAMPLE_CAP)
StatsSample(biases) == biases

\* the entry of one event count
ScalingEntry(bias_ma, bias_kf) ==
    [f \in {"MA_bias_mean", "MA_bias_std", "KF_bias_mean", "KF_bias_std",
            "MA_biases", "KF_biases"} |->
        CASE f = "MA_bias_mean" -> ListMean(StatsSample(bias_ma))
          [] f = "MA_bias_std"  -> ListStd(StatsSample(bias_ma))
          [] f = "KF_bias_mean" -> ListMean(StatsSample(bias_kf))
          [] f = "KF_bias_std"  -> ListStd(StatsSample(bias_kf))
          [] f = "MA_biases"    -> Take(bias_ma, SAMPLE_CAP)
          [] f = "KF_biases"    -> Take(bias_kf, SAMPLE_CAP)]

\* one pass of the inner loop: event `clean`, loop state est
EventPass(clean, est) ==
    Bind(add_gaussian_noise(clean, ScalingSigma, est.rng), LAMBDA nz :
         Bind(<<moving_average(nz.out, DEFAULT_WINDOW),
                kalman_filter(nz.out, DefaultProcessNoise, DefaultMeasurementNoise)>>,
              LAMBDA f :
                 [bias_ma |-> Append(est.bias_ma, reconstruction_bias(clean, f[1])),
                  bias_kf |-> Append(est.bias_kf, reconstruction_bias(clean, f[2])),
                  rng     |-> nz.rng]))

\* the passes lo..hi of the inner loop, in order (the range is split in two
\* only to keep the evaluation shallow)
RECURSIVE EventLoop(_, _, _, _)
EventLoop(clean_events, lo, hi, est) ==
    IF hi < lo THEN est
    ELSE IF lo = hi THEN Bind(clean_events[lo], LAMBDA clean : EventPass(clean, est))
    ELSE Bind((lo + hi) \div 2, LAMBDA mid :
              Bind(EventLoop(clean_events, lo, mid, est),
                   LAMBDA half : EventLoop(clean_events, mid + 1, hi, half)))

\* np.zeros((n_events, n)) raises ValueError for a negative n_events
BatchRaises(n_events) == n_events < 0

\* the outer loop of run_event_scaling_study from list position j on
RECURSIVE ScalingLoop(_, _, _)
ScalingLoop(event_counts, j, st) ==
    IF j > Len(event_counts) THEN st
    ELSE LET count == event_counts[j]
         IN  IF BatchRaises(count)
             THEN [st EXCEPT !.raised = "ValueError",
                             !.steps = Append(@, <<"generate_event_batch", count>>)]
             ELSE Bind(generate_event_batch(TimeBase, st.rng, count), LAMBDA batch :
                  Bind(EventLoop(batch.events, 1, count,
                                 [bias_ma |-> <<>>, bias_kf |-> <<>>,
                                  rng |-> batch.rng]),
                       LAMBDA ev :
                  Bind([results |-> DictSet(st.results, IntStr(count),
                                            ScalingEntry(ev.bias_ma, ev.bias_kf)),
                        rng     |-> ev.rng,
                        raised  |-> "",
                        steps   |-> st.steps
                                    \o << <<"generate_event_batch", count>>,
                                          <<"biases", ev.bias_ma, ev.bias_kf>>,
                                          <<"entry", IntStr(count)>> >>],
                       LAMBDA passed : ScalingLoop(event_counts, j + 1, passed))))

\* run_event_scaling_study up to the point where it writes
EventScalingBody(event_counts, g) ==
    ScalingLoop(event_counts, 1,
                [results |-> EmptyDict, rng |-> g, raised |-> "", steps |-> <<>>])

(***************************************************************************)
(* Calls of the reconstructors, the noise injector and the metric engine   *)
(* on arrays.  The caller holds one input array, the argument; a call     *)
(* returns either an array it built or the object it was given.            *)
(***************************************************************************)

\* one process unless two are compared
Primary == "a"
Replica == "b"

NoCall == [op |-> "none"]
NoOp   == [op |-> "none"]

\* seeds components are constructed with
Seeds == {7, DEFAULT_SEED}

\* inputs of the calls
MaxWindow   == 5
WindowSizes == (-1)..MaxWindow
QValues     == {Zero, <<1, 2>>, One}
RValues     == {<<1, 2>>, One, Int2Num(2)}
DtValues    == {One, <<1, 2>>}
Cutoffs     == {<<3, 10>>, One}
Sigmas      == {Zero, <<1, 5>>}
\* <<amplitude, frequency>> of the drift, <<prob, amplitude>> of the spikes
Drifts      == {<<<<1, 10>>, <<1, 20>>>>, <<<<3, 2>>, <<3, 10>>>>}
Spikes      == {<<<<1, 200>>, <<3, 2>>>>, <<<<1, 2>>, Int2Num(2)>>}
\* candidates compared with a reference: the reference itself and the
\* signals of its length over these values
CandidateValues == {Zero, <<3, 2>>}
Candidates(reference) ==
    {reference} \cup SeqsOfLen(CandidateValues, Len(reference))

\* the object a call returns: the argument itself, or a new one
InputId == "argument"
FreshId == "new array"
ReturnedId(returns_input) == IF returns_input THEN InputId ELSE FreshId

\* the arrays after a call that wrote result into the returned object and
\* left `after` in the argument
HeapAfter(after, ret, result) ==
    [id \in {InputId, ret} |-> IF id = ret THEN result ELSE after]

Idle == call.op = "none"

ProcFrame == <<insts, files, last, out, nops>>

CallMovingAverage(signal, window_size) ==
    /\ Idle
    /\ LET ret == ReturnedId(moving_average_returns_input(window_size))
       IN  /\ call' = [op |-> "moving_average", before |-> signal,
                       params |-> <<window_size>>, ret |-> ret, gains |-> <<>>]
           /\ heap' = HeapAfter(signal, ret, moving_average(signal, window_size))
    /\ UNCHANGED <<rng, ProcFrame>>

CallFourierFilter(signal, dt, cutoff_freq) ==
    /\ Idle
    /\ call' = [op |-> "fourier_filter", before |-> signal,
                params |-> <<dt, cutoff_freq>>, ret |-> FreshId, gains |-> <<>>]
    /\ heap' = HeapAfter(signal, FreshId, fourier_filter(signal, dt, cutoff_freq))
    /\ UNCHANGED <<rng, ProcFrame>>

CallKalmanFilter(signal, q, r) ==
    /\ Idle
    /\ call' = [op |-> "kalman_filter", before |-> signal,
                params |-> <<q, r>>, ret |-> FreshId,
                gains |-> kalman_gains(signal, q, r)]
    /\ heap' = HeapAfter(signal, FreshId, kalman_filter(signal, q, r))
    /\ UNCHANGED <<rng, ProcFrame>>

CallAddGaussianNoise(signal, sigma) ==
    /\ Idle
    /\ \E s \in insts : s[1] = "noise"
    /\ LET res == add_gaussian_noise(signal, sigma, rng[Primary])
       IN  /\ call' = [op |-> "add_gaussian_noise", before |-> signal,
                       params |-> <<sigma>>, ret |-> FreshId, gains |-> <<>>]
           /\ heap' = HeapAfter(signal, FreshId, res.out)
           /\ rng' = [p \in DOMAIN rng |-> res.rng]
    /\ UNCHANGED ProcFrame

CallAddBaselineDrift(signal, amplitude, frequency) ==
    /\ Idle
    /\ \E s \in insts : s[1] = "noise"
    /\ call' = [op |-> "add_baseline_drift", before |-> signal,
                params |-> <<amplitude, frequency>>, ret |-> FreshId, gains |-> <<>>]
    /\ heap' = HeapAfter(signal, FreshId,
                  add_baseline_drift(signal, Take(TimeBase, Len(signal)),
                                     amplitude, frequency))
    /\ UNCHANGED <<rng, ProcFrame>>

CallAddSpikes(signal, prob, amplitude) ==
    /\ Idle
    /\ \E s \in insts : s[1] = "noise"
    /\ LET res == add_spikes(signal, prob, amplitude, rng[Primary])
       IN  /\ call' = [op |-> "add_spikes", before |-> signal,
                       params |-> <<prob, amplitude>>, ret |-> FreshId, gains |-> <<>>]
           /\ heap' = HeapAfter(signal, FreshId, res.out)
           /\ rng' = [p \in DOMAIN rng |-> res.rng]
    /\ UNCHANGED ProcFrame

CallApplyFullNoiseModel(signal, sigma, drift, spike) ==
    /\ Idle
    /\ \E s \in insts : s[1] = "noise"
    /\ LET res == apply_full_noise_model(signal, Take(TimeBase, Len(signal)), sigma,
                                         drift, spike, rng[Primary])
       IN  /\ call' = [op |-> "apply_full_noise_model", before |-> signal,
                       params |-> <<sigma, drift, spike>>,
                       ret |-> FreshId, gains |-> <<>>]
           /\ heap' = HeapAfter(signal, FreshId, res.out)
           /\ rng' = [p \in DOMAIN rng |-> res.rng]
    /\ UNCHANGED ProcFrame

\* compute_all(reference, candidate): the report is the returned object
CallComputeAll(reference, candidate) ==
    /\ Idle
    /\ Len(reference) = Len(candidate)
    /\ call' = [op |-> "compute_all", before |-> reference,
                params |-> <<candidate>>, ret |-> FreshId, gains |-> <<>>]
    /\ heap' = HeapAfter(reference, FreshId, compute_all(reference, candidate))
    /\ UNCHANGED <<rng, ProcFrame>>

\* the caller drops the arrays of the finished call
Release ==
    /\ ~Idle
    /\ call' = NoCall
    /\ heap' = <<>>
    /\ UNCHANGED <<rng, ProcFrame>>

\* a process that has constructed NoiseModel()
InitRecon ==
    /\ rng = [p \in {Primary} |-> SeedState(DEFAULT_SEED)]
    /\ insts = {<<"noise", DEFAULT_SEED>>}
    /\ files = <<>>
    /\ last = NoOp
    /\ out = <<>>
    /\ nops = 0
    /\ heap = <<>>
    /\ call = NoCall

NextRecon ==
    \/ \E signal \in Signals, w \in WindowSizes : CallMovingAverage(signal, w)
    \/ \E signal \in Signals, dt \in DtValues, c \in Cutoffs :
          CallFourierFilter(signal, dt, c)
    \/ \E signal \in Signals, q \in QValues, r \in RValues :
          CallKalmanFilter(signal, q, r)
    \/ \E signal \in Signals, sigma \in Sigmas : CallAddGaussianNoise(signal, sigma)
    \/ \E signal \in Signals, d \in Drifts : CallAddBaselineDrift(signal, d[1], d[2])
    \/ \E signal \in Signals, sp \in Spikes : CallAddSpikes(signal, sp[1], sp[2])
    \/ \E signal \in Signals, d \in Drifts, sp \in Spikes :
          CallApplyFullNoiseModel(signal, <<1, 5>>, d, sp)
    \/ \E reference \in Signals : \E candidate \in Candidates(reference) :
          CallComputeAll(reference, candidate)
    \/ Release

SpecRecon == InitRecon /\ [][NextRecon]_vars

(***************************************************************************)
(* Properties of the reconstructors and the metric engine (SpecRecon)      *)
(***************************************************************************)

Returned == heap[call.ret]

\* the recurrence of the specification, section 4.3 item 3: the estimate and
\* its variance after m iterations over signal[0..m-1]
RECURSIVE EstimateAfter(_, _, _, _)
EstimateAfter(signal, Q, R, m) ==
    IF m = 0 THEN [x |-> signal[1], p |-> One]
    ELSE LET prev    == EstimateAfter(signal, Q, R, m - 1)
             p_minus == Add(prev.p, Q)
             gain    == Div(p_minus, Add(p_minus, R))
         IN  [x |-> Add(prev.x, Mul(gain, Sub(signal[m], prev.x))),
              p |-> Mul(Sub(One, gain), p_minus)]

\* C1: for a non-empty signal and positive Q and R, the value kalman_filter
\* returns at index i is the estimate after i+1 iterations of the recurrence
\* started from x = signal[0], p = 1.0; this holds of every call, whatever
\* calls came before it.
C1_KalmanRecurrence ==
    (call.op = "kalman_filter" /\ Lt(Zero, call.params[1]) /\ Lt(Zero, call.params[2]))
    => /\ Len(Returned) = Len(call.before)
       /\ \A i \in 1..Len(call.before) :
             Returned[i] = EstimateAfter(call.before, call.params[1],
                                         call.params[2], i).x

C1_Witness ==
    /\ call.op = "kalman_filter"
    /\ Lt(Zero, call.params[1])
    /\ Len(call.before) >= 3
    /\ call.before[1] # Zero
    /\ call.before[2] # call.before[1]
    /\ call.before[3] # call.before[2]

\* C2: moving_average with window_size = 1 returns a sequence equal
\* elementwise to its input, and with window_size < 1 returns the input
\* unchanged.
C2_MovingAverageIdentity ==
    (call.op = "moving_average" /\ call.params[1] <= 1)
    => /\ Returned = call.before
       /\ heap[InputId] = call.before

C2_Witness ==
    /\ call.op = "moving_average"
    /\ call.params[1] = 1
    /\ Len(call.before) >= 2
    /\ call.before[1] # call.before[2]

\* C3: each of the three reconstructors returns exactly as many values as
\* its input has; for moving_average for every window_size >= 1, odd or even,
\* also when the window is longer than the signal.
C3_SameLength ==
    (\/ call.op = "moving_average" /\ call.params[1] >= 1
     \/ call.op = "fourier_filter"
     \/ call.op = "kalman_filter")
    => Len(Returned) = Len(call.before)

C3_Witness ==
    /\ call.op = "moving_average"
    /\ call.params[1] % 2 = 0
    /\ call.params[1] > Len(call.before)
    /\ call.params[1] >= 4

\* the report of a perfect reconstruction
PerfectReport ==
    [name \in {"MSE", "SNR", "Peak Error", "Bias"} |->
        IF name = "SNR" THEN PosInf ELSE Zero]

\* C4: compute_all(reference, candidate) with candidate equal to reference
\* elementwise reports MSE = 0, Bias = 0, Peak Error = 0 and SNR = +infinity,
\* also for an all-zero reference.
C4_PerfectReconstruction ==
    (call.op = "compute_all" /\ call.params[1] = call.before)
    => Returned = PerfectReport

C4_Witness ==
    /\ call.op = "compute_all"
    /\ call.params[1] = call.before
    /\ Len(call.before) >= 2
    /\ \A i \in 1..Len(call.before) : call.before[i] = Zero

\* the gains of a call with the same length and process noise on the
\* all-zero signal, with measurement noise R
ProbeGains(n, Q, R) == kalman_gains(Repeat(Zero, n), Q, R)

Transformations ==
    {"add_gaussian_noise", "add_baseline_drift", "add_spikes",
     "apply_full_noise_model", "moving_average", "fourier_filter", "kalman_filter"}

\* C10: every transformation of a Signal leaves its input unmodified and
\* returns an array that is not the object it was given, moving_average with
\* window_size < 1 included.
C10_NoAliasing ==
    call.op \in Transformations
    => /\ heap[InputId] = call.before
       /\ call.ret # InputId

(***************************************************************************)
(* Processes: construction of the components, the operations that draw     *)
(* from the generator, and the two studies with the files they write.      *)
(* rng, out and files are kept per process.                                *)
(***************************************************************************)

Procs == DOMAIN rng

\* operations of a process that runs the studies, and of two runs compared
MaxOps    == 2
MaxRunOps == 3

SWEEP_FILE   == "noise_sweep.json"
SCALING_FILE == "event_scaling.json"
ResultFiles  == {SWEEP_FILE, SCALING_FILE}

\* a file that does not exist, one left by an earlier run, and what
\* json.dump(results, f, indent=4) leaves in a file opened with "w"
Absent == <<"absent">>
JsonDump(results) == <<"json", results>>
Stale  == JsonDump([k \in {"earlier run"} |-> <<>>])

Has(kind) == \E s \in insts : s[1] = kind

\* np.random.seed(self.seed) in SignalGenerator.__init__ and NoiseModel.__init__
KeepState(g, seed) == g
SeedOnConstruct(g, seed) == SeedState(seed)

\* Experiments.__init__: SignalGenerator() and then NoiseModel()
ExperimentsKeepsStream(g) == g
ExperimentsSeeds(g) ==
    SeedOnConstruct(SeedOnConstruct(g, DEFAULT_SEED), DEFAULT_SEED)

\* SimulationRunner(): SignalGenerator(), NoiseModel(), then Experiments(),
\* every one with the default seed
SimulationRunnerSeeds(g) ==
    ExperimentsSeeds(SeedOnConstruct(SeedOnConstruct(g, DEFAULT_SEED), DEFAULT_SEED))

Returns(value, steps) == [status |-> "returned", value |-> value, steps |-> steps]
Raises(error, steps)  == [status |-> "raised", error |-> error, steps |-> steps]

\* what a study hands back: the exception of its loop, or the results after
\* the file was written
StudyOutcome(body, file) ==
    IF body.raised # "" THEN Raises(body.raised, body.steps)
    ELSE Returns(body.results, Append(body.steps, <<"write", file>>))

\* the files of the process after the study
StudyFilesAlways(fs, body, file) == [fs EXCEPT ![file] = JsonDump(body.results)]
StudyFiles(fs, body, file) ==
    IF body.raised # "" THEN fs
    ELSE [fs EXCEPT ![file] = JsonDump(body.results)]

\* the run still has operations to perform
Running == nops > 0

Performed(op, args) ==
    /\ nops' = nops - 1
    /\ last' = [op |-> op, args |-> args, files |-> files]
    /\ UNCHANGED <<heap, call>>

ConstructSignalGenerator(seed) ==
    /\ Running
    /\ rng' = [p \in Procs |-> SeedOnConstruct(rng[p], seed)]
    /\ insts' = insts \cup {<<"gen", seed>>}
    /\ out' = [p \in Procs |-> Returns(<<"SignalGenerator", seed>>, <<>>)]
    /\ Performed("SignalGenerator", <<seed>>)
    /\ UNCHANGED files

ConstructNoiseModel(seed) ==
    /\ Running
    /\ rng' = [p \in Procs |-> SeedOnConstruct(rng[p], seed)]
    /\ insts' = insts \cup {<<"noise", seed>>}
    /\ out' = [p \in Procs |-> Returns(<<"NoiseModel", seed>>, <<>>)]
    /\ Performed("NoiseModel", <<seed>>)
    /\ UNCHANGED files

ConstructExperiments ==
    /\ Running
    /\ rng' = [p \in Procs |-> ExperimentsSeeds(rng[p])]
    /\ insts' = insts \cup {<<"exp", DEFAULT_SEED>>, <<"gen", DEFAULT_SEED>>,
                            <<"noise", DEFAULT_SEED>>}
    /\ out' = [p \in Procs |-> Returns(<<"Experiments">>, <<>>)]
    /\ Performed("Experiments", <<>>)
    /\ UNCHANGED files

ConstructSimulationRunner ==
    /\ Running
    /\ rng' = [p \in Procs |-> SimulationRunnerSeeds(rng[p])]
    /\ insts' = insts \cup {<<"runner", DEFAULT_SEED>>, <<"exp", DEFAULT_SEED>>,
                            <<"gen", DEFAULT_SEED>>, <<"noise", DEFAULT_SEED>>}
    /\ out' = [p \in Procs |-> Returns(<<"SimulationRunner">>, <<>>)]
    /\ Performed("SimulationRunner", <<>>)
    /\ UNCHANGED files

\* gen.generate_event_batch(n_events)
GenerateEventBatch(n_events) ==
    /\ Running
    /\ Has("gen")
    /\ IF BatchRaises(n_events)
       THEN /\ out' = [p \in Procs |-> Raises("ValueError", <<>>)]
            /\ UNCHANGED rng
       ELSE /\ out' = [p \in Procs |->
                         Returns(generate_event_batch(TimeBase, rng[p], n_events).events,
                                 <<>>)]
            /\ rng' = [p \in Procs |->
                         generate_event_batch(TimeBase, rng[p], n_events).rng]
    /\ Performed("generate_event_batch", <<n_events>>)
    /\ UNCHANGED <<insts, files>>

\* noise.add_gaussian_noise(signal, sigma)
AddGaussianNoise(signal, sigma) ==
    /\ Running
    /\ Has("noise")
    /\ IF NormalRaises(sigma)
       THEN /\ out' = [p \in Procs |-> Raises("ValueError", <<>>)]
            /\ UNCHANGED rng
       ELSE /\ out' = [p \in Procs |->
                         Returns(add_gaussian_noise(signal, sigma, rng[p]).out, <<>>)]
            /\ rng' = [p \in Procs |-> add_gaussian_noise(signal, sigma, rng[p]).rng]
    /\ Performed("add_gaussian_noise", <<signal, sigma>>)
    /\ UNCHANGED <<insts, files>>

\* what the study loop of process p computed, out of the set of
\* <<process, loop state>> pairs of one step
BodyOf(runs, p) == (CHOOSE run \in runs : run[1] = p)[2]

\* the lists the studies are run on
SweepLists ==
    {<<>>, <<<<1, 5>>>>, <<<<1, 5>>, <<1, 5>>>>, <<<<1, 5>>, <<-1, 10>>>>,
     <<One, <<1, 20>>, <<1, 5>>>>}

CountLists ==
    {<<>>, <<0>>, <<1, 3>>, <<2, -1>>, <<SAMPLE_CAP + 1>>}

\* exp.run_noise_sweep(sigma_levels)
RunNoiseSweep(sigma_levels) ==
    /\ Running
    /\ Has("exp")
    /\ \E runs \in {{<<p, NoiseSweepBody(sigma_levels, rng[p])>> : p \in Procs}} :
          /\ out' = [p \in Procs |-> StudyOutcome(BodyOf(runs, p), SWEEP_FILE)]
          /\ rng' = [p \in Procs |-> BodyOf(runs, p).rng]
          /\ files' = [p \in Procs |-> StudyFiles(files[p], BodyOf(runs, p), SWEEP_FILE)]
    /\ Performed("run_noise_sweep", <<sigma_levels>>)
    /\ UNCHANGED insts

\* exp.run_event_scaling_study(event_counts)
RunEventScalingStudy(event_counts) ==
    /\ Running
    /\ Has("exp")
    /\ \E runs \in {{<<p, EventScalingBody(event_counts, rng[p])>> : p \in Procs}} :
          /\ out' = [p \in Procs |-> StudyOutcome(BodyOf(runs, p), SCALING_FILE)]
          /\ rng' = [p \in Procs |-> BodyOf(runs, p).rng]
          /\ files' = [p \in Procs |->
                         StudyFiles(files[p], BodyOf(runs, p), SCALING_FILE)]
    /\ Performed("run_event_scaling_study", <<event_counts>>)
    /\ UNCHANGED insts

(***************************************************************************)
(* The studies of one process that has constructed Experiments()           *)
(***************************************************************************)

InitStudy ==
    /\ rng = [p \in {Primary} |-> SeedState(DEFAULT_SEED)]
    /\ insts = {<<"exp", DEFAULT_SEED>>, <<"gen", DEFAULT_SEED>>,
                <<"noise", DEFAULT_SEED>>}
    /\ \E earlier \in {Absent, Stale} :
          files = [p \in {Primary} |-> [f \in ResultFiles |-> earlier]]
    /\ last = NoOp
    /\ out = [p \in {Primary} |-> Returns(<<"Experiments">>, <<>>)]
    /\ nops = MaxOps
    /\ heap = <<>>
    /\ call = NoCall

NextStudy ==
    \/ \E sigma_levels \in SweepLists : RunNoiseSweep(sigma_levels)
    \/ \E event_counts \in CountLists : RunEventScalingStudy(event_counts)

SpecStudy == InitStudy /\ [][NextStudy]_vars

(***************************************************************************)
(* Two runs of the program side by side: two processes, each started with  *)
(* whatever state its generator has before any seeding, construct the same *)
(* components and call the same operations with the same arguments.        *)
(***************************************************************************)

BatchSizes    == {-1, 2}
RunSignals    == {<<Zero, One>>, <<<<3, 2>>, Zero, Int2Num(-1)>>}
RunSigmas     == {<<1, 5>>, <<-1, 10>>}
RunSweepLists == {<<<<1, 5>>, <<1, 5>>>>, <<<<1, 5>>, <<-1, 10>>>>}
RunCountLists == {<<1, 3>>, <<2, -1>>}

InitRuns ==
    /\ rng \in [{Primary, Replica} -> RngStates]
    /\ insts = {}
    /\ files = [p \in {Primary, Replica} |-> [f \in ResultFiles |-> Absent]]
    /\ last = NoOp
    /\ out = [p \in {Primary, Replica} |-> Returns(<<>>, <<>>)]
    /\ nops = MaxRunOps
    /\ heap = <<>>
    /\ call = NoCall

NextRuns ==
    \/ \E seed \in Seeds : ConstructSignalGenerator(seed)
    \/ \E seed \in Seeds : ConstructNoiseModel(seed)
    \/ ConstructExperiments
    \/ ConstructSimulationRunner
    \/ \E n_events \in BatchSizes : GenerateEventBatch(n_events)
    \/ \E signal \in RunSignals, sigma \in RunSigmas : AddGaussianNoise(signal, sigma)
    \/ \E sigma_levels \in RunSweepLists : RunNoiseSweep(sigma_levels)
    \/ \E event_counts \in RunCountLists : RunEventScalingStudy(event_counts)

SpecRuns == InitRuns /\ [][NextRuns]_vars

(***************************************************************************)
(* Properties of the studies (SpecStudy)                                   *)
(***************************************************************************)

Outcome == out[Primary]

\* the steps of the finished study with the given tag, in the order taken
StepsOf(tag) == SelectSeq(Outcome.steps, LAMBDA s : s[1] = tag)

\* the last position of the list whose key is the key of position i
LastWithKey(keys, i) == \A j \in (i + 1)..Len(keys) : keys[j] # keys[i]

\* the reference pulse, from the generator's defaults
ReferencePulse ==
    generate_gaussian_pulse(TimeBase, One, Int2Num(50), Int2Num(5))

\* the four reports the claim asks for, of one noisy signal
FourReports(reference, noisy) ==
    [m \in {"MA", "Fourier", "Kalman", "Noisy"} |->
        compute_all(reference,
            CASE m = "MA"      -> moving_average(noisy, DEFAULT_WINDOW)
              [] m = "Fourier" -> fourier_filter(noisy, ModelDt, SweepCutoff)
              [] m = "Kalman"  -> kalman_filter(noisy, DefaultProcessNoise,
                                                DefaultMeasurementNoise)
              [] m = "Noisy"   -> noisy)]

\* C6: run_noise_sweep generates the reference pulse exactly once, before the
\* loop; for each sigma in list order it adds Gaussian noise of that sigma to
\* the clean reference, never to an already noised signal; the returned
\* mapping has one key per listed sigma, its string form, and each value
\* holds exactly the entries MA, Fourier, Kalman and Noisy, each the
\* compute_all report of that candidate against the shared reference.
C6_NoiseSweepContract ==
    (last.op = "run_noise_sweep" /\ Outcome.status = "returned")
    => LET sigma_levels == last.args[1]
           n      == Len(sigma_levels)
           keys   == [i \in 1..n |-> FloatStr(sigma_levels[i])]
           added  == StepsOf("add_gaussian_noise")
           noisy  == StepsOf("noisy")
       IN  /\ Len(StepsOf("generate_gaussian_pulse")) = 1
           /\ Outcome.steps[1] = <<"generate_gaussian_pulse", ReferencePulse>>
           /\ Len(added) = n /\ Len(noisy) = n
           /\ \A i \in 1..n :
                 /\ added[i][2] = sigma_levels[i]
                 /\ added[i][3] = ReferencePulse
           /\ DOMAIN Outcome.value = {keys[i] : i \in 1..n}
           /\ \A i \in 1..n :
                 LastWithKey(keys, i)
                 => Outcome.value[keys[i]] = FourReports(ReferencePulse, noisy[i][2])

C6_Witness ==
    /\ last.op = "run_noise_sweep"
    /\ Outcome.status = "returned"
    /\ Len(last.args[1]) = 3
    /\ Lt(last.args[1][2], last.args[1][1])
    /\ StepsOf("noisy")[1][2] # ReferencePulse
    /\ StepsOf("noisy")[2][2] # StepsOf("noisy")[1][2]
    /\ nops = 0

\* the first min(n, SAMPLE_CAP) values of a list
FirstValues(s) ==
    [i \in 1..(IF Len(s) < SAMPLE_CAP THEN Len(s) ELSE SAMPLE_CAP) |-> s[i]]

\* C7: in run_event_scaling_study the entry of every requested count N, keyed
\* by the string form of N, keeps in MA_biases and KF_biases the per-event
\* biases of the first min(N, 100) events in event order, while the means and
\* standard deviations are those of all N per-event biases.
C7_ScalingSampleAndStatistics ==
    (last.op = "run_event_scaling_study" /\ Outcome.status = "returned")
    => LET event_counts == last.args[1]
           n      == Len(event_counts)
           keys   == [j \in 1..n |-> IntStr(event_counts[j])]
           biases == StepsOf("biases")
       IN  /\ Len(biases) = n
           /\ DOMAIN Outcome.value = {keys[j] : j \in 1..n}
           /\ \A j \in 1..n :
                 LET N     == event_counts[j]
                     entry == Outcome.value[keys[j]]
                     all_ma == biases[j][2]
                     all_kf == biases[j][3]
                 IN  /\ Len(all_ma) = N /\ Len(all_kf) = N
                     /\ LastWithKey(keys, j)
                        => /\ Len(entry.MA_biases) = (IF N < 100 THEN N ELSE 100)
                           /\ Len(entry.KF_biases) = (IF N < 100 THEN N ELSE 100)
                           /\ entry.MA_biases = FirstValues(all_ma)
                           /\ entry.KF_biases = FirstValues(all_kf)
                           /\ entry.MA_bias_mean = ListMean(all_ma)
                           /\ entry.MA_bias_std = ListStd(all_ma)
                           /\ entry.KF_bias_mean = ListMean(all_kf)
                           /\ entry.KF_bias_std = ListStd(all_kf)

C7_Witness ==
    /\ last.op = "run_event_scaling_study"
    /\ Outcome.status = "returned"
    /\ last.args[1] = <<SAMPLE_CAP + 1>>
    /\ Len(Outcome.value[IntStr(SAMPLE_CAP + 1)].MA_biases) = SAMPLE_CAP
    /\ Outcome.value[IntStr(SAMPLE_CAP + 1)].MA_bias_mean
          # ListMean(Outcome.value[IntStr(SAMPLE_CAP + 1)].MA_biases)
    /\ Outcome.value[IntStr(SAMPLE_CAP + 1)].KF_bias_mean
          # ListMean(Outcome.value[IntStr(SAMPLE_CAP + 1)].KF_biases)

\* C8: a study called with an empty list signals an error to its caller and
\* neither writes nor overwrites its result file.
C8_EmptyListRejected ==
    (last.op \in {"run_noise_sweep", "run_event_scaling_study"} /\ last.args[1] = <<>>)
    => /\ Outcome.status = "raised"
       /\ files = last.files

(***************************************************************************)
(* Properties of two runs compared (SpecRuns)                              *)
(***************************************************************************)

\* C9: two runs that construct their components with the same seed and then
\* invoke the same operations with the same arguments in the same order
\* produce identical outputs at every step: identical batches, identical
\* noisy signals, identical study results (and identical result files).
C9_SameSeedSameOutputs ==
    insts # {}
    => /\ out[Primary] = out[Replica]
       /\ files[Primary] = files[Replica]

C9_Witness ==
    /\ nops = 0
    /\ last.op = "run_event_scaling_study"
    /\ out[Primary].status = "returned"
    /\ out[Primary] = out[Replica]
    /\ \E f \in ResultFiles :
          /\ files[Primary][f] # Absent
          /\ f # SCALING_FILE

(***************************************************************************)
(* Order of computation and persistence in the studies (SpecStudy)         *)
(***************************************************************************)

StudyOps == {"run_noise_sweep", "run_event_scaling_study"}

\* the result file of a study
FileOf(op) == IF op = "run_noise_sweep" THEN SWEEP_FILE ELSE SCALING_FILE

\* the positions of the steps with the given tag in the finished study
PositionsOf(tag) == {i \in 1..Len(Outcome.steps) : Outcome.steps[i][1] = tag}

\* C11: a study writes its result file exactly once per call, and only
\* after the entry of every listed value has been computed (for the scaling
\* study: after the biases of every count were computed and aggregated); a
\* call whose computation aborts before the last entry writes nothing.
C11_WriteOnceAtTheEnd ==
    last.op \in StudyOps
    => LET n      == Len(last.args[1])
           writes == PositionsOf("write")
           file   == FileOf(last.op)
       IN  /\ \A f \in ResultFiles \ {file} :
                 files[Primary][f] = last.files[Primary][f]
           /\ IF Outcome.status = "returned"
              THEN /\ writes = {Len(Outcome.steps)}
                   /\ Outcome.steps[Len(Outcome.steps)] = <<"write", file>>
                   /\ Cardinality(PositionsOf("entry")) = n
                   /\ last.op = "run_event_scaling_study"
                      => Cardinality(PositionsOf("biases")) = n
                   /\ files[Primary][file] = JsonDump(Outcome.value)
              ELSE /\ writes = {}
                   /\ Cardinality(PositionsOf("entry")) < n
                   /\ files[Primary] = last.files[Primary]

C11_Witness ==
    /\ last.op = "run_noise_sweep"
    /\ Outcome.status = "raised"
    /\ Cardinality(PositionsOf("entry")) = 1
    /\ last.files[Primary][SCALING_FILE] = Absent
    /\ last.files[Primary][SWEEP_FILE] # Absent
    /\ files[Primary][SWEEP_FILE] = last.files[Primary][SWEEP_FILE]

(***************************************************************************)
(* Bounds of the recursive estimator (SpecRecon)                           *)
(***************************************************************************)

\* the smallest and the largest of the observations signal[0..i-1]
RECURSIVE MinUpTo(_, _)
MinUpTo(signal, i) ==
    IF i = 1 THEN signal[1] ELSE NumMin(MinUpTo(signal, i - 1), signal[i])

RECURSIVE MaxUpTo(_, _)
MaxUpTo(signal, i) ==
    IF i = 1 THEN signal[1] ELSE NumMax(MaxUpTo(signal, i - 1), signal[i])

ConstructorOps == {"SignalGenerator", "NoiseModel", "Experiments", "SimulationRunner"}
DrawOps == {"generate_event_batch", "add_gaussian_noise",
            "run_noise_sweep", "run_event_scaling_study"}

\* the seed the stream is restarted at by a construction
SeedOf(op, args) ==
    IF op \in {"SignalGenerator", "NoiseModel"} THEN args[1] ELSE DEFAULT_SEED

RECURSIVE EventDraws(_, _)
\* draws of the first j counts of a scaling study: three uniforms per event
\* and one normal per sample of each event
EventDraws(event_counts, j) ==
    IF j = 0 THEN 0
    ELSE EventDraws(event_counts, j - 1) + (3 + NSamples) * event_counts[j]

\* the number of variates an operation took, counted from what it was given
\* and what it reported
DrawsOf(op, args, result) ==
    LET count(tag) == Cardinality({i \in 1..Len(result.steps) : result.steps[i][1] = tag})
    IN  CASE op = "generate_event_batch" ->
                IF result.status = "returned" THEN 3 * args[1] ELSE 0
          [] op = "add_gaussian_noise" ->
                IF result.status = "returned" THEN Len(args[1]) ELSE 0
          [] op = "run_noise_sweep" -> NSamples * count("noisy")
          [] op = "run_event_scaling_study" -> EventDraws(args[1], count("biases"))
          [] OTHER -> 0

\* the first variate an operation reported, read back as a stream position:
\* the states the first draw can have been read off
FirstDrawStates(op, args, result) ==
    CASE op = "add_gaussian_noise" ->
            {g \in RngStates : add_gaussian_noise(args[1], args[2], g).out = result.value}
      [] op = "generate_event_batch" ->
            {g \in RngStates : generate_event_batch(TimeBase, g, args[1]).events = result.value}
      [] OTHER -> RngStates

C13_Step ==
    LET op == last'.op
    IN  /\ op \in ConstructorOps
           => \A p \in Procs : rng'[p] = SeedState(SeedOf(op, last'.args))
        /\ op \in DrawOps
           => \A p \in Procs :
                 /\ rng'[p] = RngSkip(rng[p], DrawsOf(op, last'.args, out'[p]))
                 /\ out'[p].status = "returned"
                    => rng[p] \in FirstDrawStates(op, last'.args, out'[p])
                 /\ insts' = insts

\* C13: constructing a SignalGenerator or a NoiseModel, directly or through
\* Experiments or SimulationRunner, restarts the one stream of the process
\* at the seed of that construction; every operation that draws, of whatever
\* instance and whatever seed that instance was constructed with, reads the
\* stream where the draws since the most recent construction have left it,
\* and advances it by the number of variates it takes.
C13_ProcessWideStream == [][C13_Step]_vars

C13_Witness ==
    /\ nops = 0
    /\ last.op = "add_gaussian_noise"
    /\ Outcome.status = "returned"
    /\ <<"noise", 7>> \in insts
    /\ <<"noise", DEFAULT_SEED>> \notin insts
    /\ <<"gen", DEFAULT_SEED>> \in insts
    /\ Outcome.value = add_gaussian_noise(last.args[1], last.args[2],
                                          SeedState(DEFAULT_SEED)).out
    /\ Outcome.value # add_gaussian_noise(last.args[1], last.args[2],
                                          SeedState(7)).out
    /\ rng[Primary] = RngSkip(SeedState(DEFAULT_SEED), Len(last.args[1]))

=============================================================================
